---- MODULE Spec2Model ----
(***************************************************************************)
(* Model of the zoning report card dashboard: the normalizers of           *)
(* src/data_loader.py and src/streamlit_app.py and the page load of        *)
(* src/streamlit_app.py.                                                   *)
(*                                                                         *)
(* Numbers are fixed point, counted in hundredths: Num(30) is 30, 25 is    *)
(* 0.25.  The numeric inputs are multiples of 0.25, which binary floating  *)
(* point holds exactly, so that the sums, differences and quotients of the *)
(* program are the exact ones computed here, and one number of two         *)
(* decimals that it does not hold, 0.35, for which round(v, 1) is computed *)
(* from the float nearest it.                                              *)
(***************************************************************************)
EXTENDS Integers, Sequences, FiniteSets, TLC

VARIABLES
    data_dict,      \* the payload handed to the normalizer
    scenario_name,  \* its scenario_name argument
    url,            \* load_data_from_aggregation_csv: its url argument
    df_len,         \* load_data_from_aggregation_csv: len(df), the data rows read
    pc,             \* "ready" before the call, "returned" after it
    fn,             \* the function that was called
    ret,            \* what the call returned: None or a record
    st_error,       \* the messages passed to st.error, in order
    escaped,        \* the exception that left the call ("" when none did)
    params,         \* the page load: st.query_params
    simulation_ids, \* the page load: the list of requested simulation ids
    api_response,   \* the page load: what fetch_data_from_api returned
    all_data,       \* the page load: the collection of records
    idx,            \* the page load: the position of the loop in simulation_ids
    st_info,        \* the page load: the messages passed to st.info
    posts,          \* the requests.post calls made, in order, and what each met
    charts          \* the page load: the charts built

call_vars == <<data_dict, scenario_name, url, df_len, fn, ret, escaped>>

page_vars == <<params, simulation_ids, api_response, all_data, idx, st_info, posts, charts>>

vars == <<data_dict, scenario_name, url, df_len, pc, fn, ret, st_error, escaped,
          params, simulation_ids, api_response, all_data, idx, st_info, posts, charts>>

----------------------------------------------------------------------------
(* Values *)

\* The number n, in hundredths.
Num(n) == n * 100

\* A JSON number x (in hundredths) as a field value.
Number(x) == [t |-> "num", v |-> x]

\* A JSON null as a field value: Python's None.
NoneValue == [t |-> "None", v |-> 0]

IsNum(x) == x.t = "num"

\* What a function returns when it returns None.
None == [kind |-> "None"]

\* ret before the call.
NotCalled == [kind |-> "not called"]

Abs(x) == IF x < 0 THEN -x ELSE x

\* n/d rounded to the nearest integer, a tie to the even one (d > 0): what
\* Python's round does with the exactly represented quotient.
RoundHalfEven(n, d) ==
    LET q == n \div d
        r == n - q * d
    IN  IF 2 * r < d THEN q
        ELSE IF 2 * r > d THEN q + 1
        ELSE IF q % 2 = 0 THEN q ELSE q + 1

RECURSIVE FloorLog2(_, _)
\* The exponent of the binary float nearest h / unit (h > 0): the j with
\* 2^j <= h / unit < 2^(j+1).
FloorLog2(h, unit) ==
    IF h < unit THEN FloorLog2(2 * h, unit) - 1
    ELSE IF h >= 2 * unit THEN FloorLog2(h, 2 * unit) + 1
    ELSE 0

RECURSIVE Pow2Mod(_, _)
\* 2^k modulo m
Pow2Mod(k, m) == IF k = 0 THEN 1 ELSE (2 * Pow2Mod(k - 1, m)) % m

\* Where the 64-bit float nearest h hundredths (h > 0) lies: its 53-bit
\* mantissa is h * 2^k / 100 rounded to an integer, k = 52 - FloorLog2(h, 100),
\* and the remainder of that division is 0 when the float is h / 100 exactly,
\* below 50 when the float lies below h / 100, above 50 when it lies above.
FloatRemainder(h) ==
    ((h % 100) * Pow2Mod(52 - FloorLog2(h, 100), 100)) % 100

\* h hundredths on a tie of the first decimal (|h| ends in 5) rounded as the
\* float nearest it: to the even neighbour when the float holds the tie
\* exactly, else to the side the float lies on; any other h to the nearest.
RoundAsFloat(h) ==
    LET a == Abs(h)
        sign == IF h < 0 THEN -1 ELSE 1
    IN  IF a % 10 # 5 \/ FloatRemainder(a) = 0 THEN RoundHalfEven(h, 10) * 10
        ELSE IF FloatRemainder(a) < 50 THEN sign * (a - 5)
        ELSE sign * (a + 5)

\* round(v, 1) of a float: v (hundredths) rounded to one decimal, in
\* hundredths.  float.__round__ rounds the float's own value correctly.
Round1(v) == RoundAsFloat(v)

\* round(v, 1) of a numpy.float64, the type of df[column].iloc[0]:
\* numpy.float64.__round__ computes rint(v * 10) / 10.  The product of the
\* float with 10 is rounded to a float first: a float within
\* 10 * 2^(d-1) / 100 mantissa units of a tie (d the exponent gained by the
\* factor 10) becomes the tie itself, which rint sends to the even neighbour;
\* a float farther from the tie goes to its own side.
NumpyRound1(v) ==
    LET a == Abs(v)
        r == FloatRemainder(a)
        s == IF r < 50 THEN r ELSE 100 - r
        d == FloorLog2(a, 10) - FloorLog2(a, 100)
    IN  IF a % 10 # 5 \/ r = 0 \/ s <= 10 * 2^(d - 1)
        THEN RoundHalfEven(v, 10) * 10
        ELSE RoundAsFloat(v)

\* round(v, 1) by the type of v
round1(v, numpy) == IF numpy THEN NumpyRound1(v) ELSE Round1(v)

RECURSIVE SumSeq(_)
\* sum(s)
SumSeq(s) == IF s = <<>> THEN 0 ELSE Head(s) + SumSeq(Tail(s))

----------------------------------------------------------------------------
(* The raw field keys each normalizer reads, in the order it reads them *)

\* data_loader.process_aggregation_data
dl_income_keys ==
    << "marketUnits050Sum", "marketUnits51100Sum", "marketUnits101150Sum",
       "marketUnits151200Sum", "marketUnits201250Sum", "marketUnits251Sum",
       "affordableUnits30Sum", "affordableUnits50Sum", "affordableUnits60Sum",
       "affordableUnits80Sum", "affordableUnits100Sum", "affordableUnits120Sum",
       "affordableUnits140Sum", "affordableUnits150Sum", "affordableUnits170Sum" >>

dl_bedroom_keys ==
    << "countMarket0BrSum", "countMarket1BrSum", "countMarket2BrSum",
       "countMarket3BrSum", "countAffordable0BrSum", "countAffordable1BrSum",
       "countAffordable2BrSum", "countAffordable3BrSum" >>

dl_tcac_keys ==
    << "unitsByTcacNotTcacSum", "unitsByTcacLowResourceSum",
       "unitsByTcacModerateResourceSum", "unitsByTcacHighResourceSum",
       "unitsByTcacHighestResourceSum" >>

\* Mutant of dl_fire_high_key: the field name of the other schema.
dl_fire_high_key_fhsz == "unitsFhszHighSum"

dl_fire_high_key == "unitsFireHazardHighSum"

dl_fire_very_high_key == "unitsFireHazardVeryHighSum"

\* Mutant of app_income_keys: the first two bands in the other order.
app_income_keys_swapped ==
    << "marketUnits51100Sum", "marketUnits050Sum", "marketUnits101150Sum",
       "marketUnits151200Sum", "marketUnits201250Sum", "marketUnits251Sum" >>

\* streamlit_app.process_aggregation_data and load_data_from_aggregation_csv
app_income_keys ==
    << "marketUnits050Sum", "marketUnits51100Sum", "marketUnits101150Sum",
       "marketUnits151200Sum", "marketUnits201250Sum", "marketUnits251Sum" >>

app_bedroom_keys ==
    << "countMarket0BrSum", "countMarket1BrSum", "countMarket2BrSum",
       "countMarket3BrSum" >>

app_tcac_keys ==
    << "unitsByTcacLowResourceSum", "unitsByTcacModerateResourceSum",
       "unitsByTcacHighResourceSum", "unitsByTcacHighestResourceSum" >>

app_fire_high_key == "unitsFhszHighSum"

app_fire_very_high_key == "unitsFhszVeryhighSum"

\* the groups the three functions read alike
parking_keys ==
    << "surfaceParkingStallsSum", "garageParkingStallsSum", "podiumParkingStallsSum",
       "structuredParkingStallsSum", "undergroundParkingStallsSum" >>

density_keys ==
    << "acresDuaLt10Sum", "acresDua1025Sum", "acresDua2550Sum", "acresDua5075Sum",
       "acresDuaGt75Sum" >>

far_keys ==
    << "acresFarLtpt2Sum", "acresFarPt2Pt6Sum", "acresFarPt61Sum", "acresFar12Sum",
       "acresFar24Sum", "acresFarGt4Sum" >>

unit_type_keys ==
    << "unitsByTypeSFSum", "unitsByTypeTHSum", "unitsByTypePLEXSum", "unitsByTypeMFSum" >>

\* Mutant of location_keys: the last entry left out.
location_keys_without_wui ==
    << <<"fault_zone", "unitsFaultZoneSum">>,
       <<"historic_district", "unitsHistoricDistrictSum">>,
       <<"urbanized", "unitsUrbanizedSum">>,
       <<"walkable", "unitsWalkableSum">>,
       <<"near_transit", "unitsNearTransitSum">> >>

\* location_data: its key, then the raw field it copies
location_keys ==
    << <<"fault_zone", "unitsFaultZoneSum">>,
       <<"historic_district", "unitsHistoricDistrictSum">>,
       <<"urbanized", "unitsUrbanizedSum">>,
       <<"walkable", "unitsWalkableSum">>,
       <<"near_transit", "unitsNearTransitSum">>,
       <<"wui", "unitsWuiSum">> >>

\* the ndigits of round() in each group's percentage (none given: 0)
income_ndigits == 0

bedroom_ndigits == 0

parking_ndigits == 0

\* Mutant of density_ndigits: round() without ndigits, as for income.
density_ndigits_omitted == income_ndigits

density_ndigits == 1

far_ndigits == 1

unit_type_ndigits == 1

tcac_ndigits == 1

fire_risk_ndigits == 1

\* The schema of data_loader.process_aggregation_data.
data_loader_schema ==
    [ income |-> dl_income_keys, bedroom |-> dl_bedroom_keys, tcac |-> dl_tcac_keys,
      fire_high |-> dl_fire_high_key, fire_very_high |-> dl_fire_very_high_key,
      net_units |-> TRUE, numpy |-> FALSE ]

\* The schema of streamlit_app.process_aggregation_data; numpy: the numbers
\* read are numpy scalars, not Python numbers.
streamlit_app_schema ==
    [ income |-> app_income_keys, bedroom |-> app_bedroom_keys, tcac |-> app_tcac_keys,
      fire_high |-> app_fire_high_key, fire_very_high |-> app_fire_very_high_key,
      net_units |-> FALSE, numpy |-> FALSE ]

\* The schema of load_data_from_aggregation_csv: the keys of
\* streamlit_app.process_aggregation_data, the numbers those of the DataFrame
\* that pd.read_csv gives.
csv_schema == [streamlit_app_schema EXCEPT !.numpy = TRUE]

Range(s) == { s[i] : i \in DOMAIN s }

\* Every raw field key some normalizer reads.
AllKeys ==
    Range(dl_income_keys) \cup Range(dl_bedroom_keys) \cup Range(dl_tcac_keys)
    \cup Range(app_income_keys) \cup Range(app_bedroom_keys) \cup Range(app_tcac_keys)
    \cup Range(parking_keys) \cup Range(density_keys) \cup Range(far_keys)
    \cup Range(unit_type_keys) \cup { location_keys[i][2] : i \in DOMAIN location_keys }
    \cup { "totalUnitsSum", "affordableUnitsSum", "netUnitsSum",
           dl_fire_high_key, dl_fire_very_high_key,
           app_fire_high_key, app_fire_very_high_key }

----------------------------------------------------------------------------
(* The normalizers *)

\* A step's outcome: the exception it raised ("" when none) and its value.
Raise(e) == [exc |-> e, val |-> 0]

Return(x) == [exc |-> "", val |-> x]

\* Mutant of get_value: data_dict.get(key), whose default is None.
get_value_without_default(d, key) ==
    IF key \in DOMAIN d.fields THEN d.fields[key] ELSE NoneValue

\* Mutant of get_value: a null value counts 0, as an absent key does.
get_value_none_as_zero(d, key) ==
    IF key \in DOMAIN d.fields /\ d.fields[key] # NoneValue
    THEN d.fields[key]
    ELSE Number(0)

\* process_aggregation_data.get_value: data_dict.get(key, 0).  A payload that
\* is no mapping has no get: the caller raises AttributeError before this.
get_value(d, key) == IF key \in DOMAIN d.fields THEN d.fields[key] ELSE Number(0)

\* load_data_from_aggregation_csv.get_value: the first row's cell of the
\* column, 0 when the column is missing or the table has no row.
csv_get_value(d, rows, column) ==
    IF column \in DOMAIN d.fields /\ rows > 0 THEN d.fields[column] ELSE Number(0)

\* Mutant of percent: the factor 1000 in place of 100.
percent_per_mille(v, total, ndigits) ==
    IF total = 0 THEN Raise("ZeroDivisionError")
    ELSE LET n == IF total > 0 THEN v ELSE -v
             d == Abs(total)
         IN  Return(IF ndigits = 0 THEN RoundHalfEven(n * 1000, d) * 100
                    ELSE RoundHalfEven(n * 10000, d) * 10)

\* Mutant of percent: v / total without the factor 100.
percent_without_factor(v, total, ndigits) ==
    IF total = 0 THEN Raise("ZeroDivisionError")
    ELSE LET n == IF total > 0 THEN v ELSE -v
             d == Abs(total)
         IN  Return(IF ndigits = 0 THEN RoundHalfEven(n, d) * 100
                    ELSE RoundHalfEven(n * 10, d) * 10)

\* v / total * 100 rounded to ndigits decimals, in hundredths; the division
\* raises ZeroDivisionError on a zero total.
percent(v, total, ndigits) ==
    IF total = 0 THEN Raise("ZeroDivisionError")
    ELSE LET n == IF total > 0 THEN v ELSE -v
             d == Abs(total)
         IN  Return(IF ndigits = 0 THEN RoundHalfEven(n * 100, d) * 100
                    ELSE RoundHalfEven(n * 1000, d) * 10)

\* Mutant of safe_percent: the division without its guard.
safe_percent_unguarded(v, total, ndigits) == percent(v, total, ndigits)

\* round(v / total * 100, ndigits) if total > 0 else 0
safe_percent(v, total, ndigits) ==
    IF total > 0 THEN percent(v, total, ndigits) ELSE Return(0)

\* A group of numbers: total = sum(values), then the list of percentages.
\* val: the values as read and their percentages.
percentages(values, ndigits) ==
    LET total == SumSeq(values)
        each  == [i \in DOMAIN values |-> safe_percent(values[i], total, ndigits)]
    IN  IF \E i \in DOMAIN each : each[i].exc # ""
        THEN Raise("ZeroDivisionError")
        ELSE Return([values |-> values, pct |-> [i \in DOMAIN each |-> each[i].val]])

\* Mutant of group: the values are rounded before the total and the
\* percentages are computed.
group_from_rounded(row, keys, ndigits) ==
    IF \E i \in DOMAIN keys : ~IsNum(row[keys[i]])
    THEN Raise("TypeError")
    ELSE percentages([i \in DOMAIN keys |-> RoundHalfEven(row[keys[i]].v, 10) * 10],
                     ndigits)

\* A group read from the raw record `row` (key -> value as get_value gives
\* it): sum() raises TypeError on a value that is no number.
group(row, keys, ndigits) ==
    IF \E i \in DOMAIN keys : ~IsNum(row[keys[i]])
    THEN Raise("TypeError")
    ELSE percentages([i \in DOMAIN keys |-> row[keys[i]].v], ndigits)

\* Mutant of fire_hazard_none: the difference clamped at 0.
fire_hazard_none_clamped(total_units, high, very_high) ==
    IF total_units - high - very_high < 0 THEN 0 ELSE total_units - high - very_high

\* Mutant of fire_hazard_none: the very-high count not subtracted.
fire_hazard_none_less_high(total_units, high, very_high) == total_units - high

\* fire_hazard_none = total_units - fire_hazard_high - fire_hazard_very_high
fire_hazard_none(total_units, high, very_high) == total_units - high - very_high

\* The fire-risk group: the subtraction raises TypeError on a value that is
\* no number.
fire_risk_group(row, schema) ==
    LET total_units == row["totalUnitsSum"]
        high        == row[schema.fire_high]
        very_high   == row[schema.fire_very_high]
    IN  IF ~(IsNum(total_units) /\ IsNum(high) /\ IsNum(very_high))
        THEN Raise("TypeError")
        ELSE percentages(<< fire_hazard_none(total_units.v, high.v, very_high.v),
                            high.v, very_high.v >>, fire_risk_ndigits)

\* [round(v, 1) for v in values]
stored(values, numpy) == [i \in DOMAIN values |-> round1(values[i], numpy)]

\* The statements between try: and except: of a normalizer, on the raw record
\* `row`: the eight groups, location_data, the totals, the returned record
\* (kind tags the value as a dict).
normalize(row, schema, name) ==
    LET income    == group(row, schema.income, income_ndigits)
        bedroom   == group(row, schema.bedroom, bedroom_ndigits)
        parking   == group(row, parking_keys, parking_ndigits)
        density   == group(row, density_keys, density_ndigits)
        far       == group(row, far_keys, far_ndigits)
        unit_type == group(row, unit_type_keys, unit_type_ndigits)
        tcac      == group(row, schema.tcac, tcac_ndigits)
        fire_risk == fire_risk_group(row, schema)
        all       == <<income, bedroom, parking, density, far, unit_type, tcac, fire_risk>>
        base      ==
            [ kind |-> "dict",
              scenario_name |-> name,
              income_values |-> stored(income.val.values, schema.numpy),
              income_pct |-> income.val.pct,
              bedroom_values |-> stored(bedroom.val.values, schema.numpy),
              bedroom_pct |-> bedroom.val.pct,
              parking_values |-> stored(parking.val.values, schema.numpy),
              parking_pct |-> parking.val.pct,
              density_values |-> stored(density.val.values, schema.numpy),
              density_pct |-> density.val.pct,
              far_values |-> stored(far.val.values, schema.numpy),
              far_pct |-> far.val.pct,
              unit_type_values |-> stored(unit_type.val.values, schema.numpy),
              unit_type_pct |-> unit_type.val.pct,
              tcac_values |-> stored(tcac.val.values, schema.numpy),
              tcac_pct |-> tcac.val.pct,
              fire_risk_values |-> stored(fire_risk.val.values, schema.numpy),
              fire_risk_pct |-> fire_risk.val.pct,
              location_data |->
                  [k \in { location_keys[i][1] : i \in DOMAIN location_keys } |->
                      row[location_keys[CHOOSE i \in DOMAIN location_keys :
                                            location_keys[i][1] = k][2]] ],
              total_units |-> row["totalUnitsSum"],
              affordable_units |-> row["affordableUnitsSum"] ]
    IN  IF \E i \in DOMAIN all : all[i].exc # ""
        THEN Raise(all[CHOOSE i \in DOMAIN all :
                           all[i].exc # "" /\ \A j \in 1..(i-1) : all[j].exc = ""].exc)
        ELSE Return(IF schema.net_units
                    THEN base @@ [net_units |-> row["netUnitsSum"]]
                    ELSE base)

\* Mutant of except_Exception: except TypeError.
except_TypeError(e) == e = "TypeError"

\* except Exception: the exceptions the handler catches.
except_Exception(e) ==
    e \in {"AttributeError", "TypeError", "ZeroDivisionError", "HTTPError"}

\* try: body / except Exception as e: st.error(f"{message}: {e}");
\* st.error(traceback.format_exc()); return None.  What the call returns, what
\* it passes to st.error, and the exception that leaves it.
try_except(body, message) ==
    IF body.exc = ""
    THEN [ret |-> body.val, st_error |-> <<>>, escaped |-> ""]
    ELSE IF except_Exception(body.exc)
    THEN [ret |-> None,
          st_error |-> << [text |-> message, e |-> body.exc],
                          [text |-> "traceback", e |-> body.exc] >>,
          escaped |-> ""]
    ELSE [ret |-> NotCalled, st_error |-> <<>>, escaped |-> body.exc]

\* data_loader.process_aggregation_data(data_dict, scenario_name)
data_loader_process_aggregation_data(d, name) ==
    try_except(IF d.kind # "dict" THEN Raise("AttributeError")
               ELSE normalize([k \in AllKeys |-> get_value(d, k)],
                              data_loader_schema, name),
               "Error processing aggregation data")

\* streamlit_app.process_aggregation_data(data_dict, scenario_name)
streamlit_app_process_aggregation_data(d, name) ==
    try_except(IF d.kind # "dict" THEN Raise("AttributeError")
               ELSE normalize([k \in AllKeys |-> get_value(d, k)],
                              streamlit_app_schema, name),
               "Error processing aggregation data")

\* pd.read_csv(url) fails on a url that serves no table.
read_csv_fails(u) == u = "https://host/missing.csv"

\* streamlit_app.load_data_from_aggregation_csv(url, scenario_name), where the
\* table at url has the columns and first row of d and `rows` data rows.
load_data_from_aggregation_csv(u, d, rows, name) ==
    IF u = ""
    THEN [ret |-> None, st_error |-> <<>>, escaped |-> ""]
    ELSE try_except(IF read_csv_fails(u) THEN Raise("HTTPError")
                    ELSE normalize([k \in AllKeys |-> csv_get_value(d, rows, k)],
                                   csv_schema, name),
                    "Error loading CSV data from")

----------------------------------------------------------------------------
(* The payloads the normalizers are run on *)

\* The largest whole number of units a field holds.
MaxUnits == 3

\* Field numbers: the whole numbers to MaxUnits, two fractions, one negative.
NumValues == { Num(n) : n \in 0..MaxUnits } \cup { 25, 175, -Num(1) }

FieldValues == { Number(x) : x \in NumValues } \cup { NoneValue }

\* The sets of keys a payload holds a subset of: the first keys of each group,
\* the fields of the fire-risk derivation of either schema, the totals, and
\* pairs across groups.
FieldSets ==
    { {"marketUnits050Sum", "marketUnits51100Sum", "affordableUnits30Sum"},
      {"countMarket0BrSum", "countMarket1BrSum", "countAffordable0BrSum"},
      {"surfaceParkingStallsSum", "garageParkingStallsSum"},
      {"acresDuaLt10Sum", "acresDua1025Sum"},
      {"acresFarLtpt2Sum", "acresFarPt2Pt6Sum"},
      {"unitsByTypeSFSum", "unitsByTypeTHSum"},
      {"unitsByTcacNotTcacSum", "unitsByTcacLowResourceSum",
       "unitsByTcacModerateResourceSum"},
      {"totalUnitsSum", "unitsFireHazardHighSum", "unitsFireHazardVeryHighSum"},
      {"totalUnitsSum", "unitsFhszHighSum", "unitsFhszVeryhighSum"},
      {"totalUnitsSum", "affordableUnitsSum", "netUnitsSum"},
      {"unitsFaultZoneSum", "unitsWuiSum"},
      {"marketUnits050Sum", "surfaceParkingStallsSum"},
      {"acresDuaLt10Sum", "unitsByTypeSFSum"} }

Dict(f) == [kind |-> "dict", fields |-> f]

\* The raw records of the two examples of the specification's section 8.
ExampleIncome ==
    Dict([k \in {"marketUnits050Sum", "marketUnits51100Sum", "totalUnitsSum",
                 "affordableUnitsSum"} |->
            Number(CASE k = "marketUnits050Sum" -> Num(30)
                     [] k = "marketUnits51100Sum" -> Num(70)
                     [] k = "totalUnitsSum" -> Num(100)
                     [] OTHER -> 0)])

ExampleFire ==
    Dict([k \in {"totalUnitsSum", "unitsFireHazardHighSum",
                 "unitsFireHazardVeryHighSum"} |->
            Number(CASE k = "totalUnitsSum" -> Num(50)
                     [] k = "unitsFireHazardHighSum" -> Num(10)
                     [] OTHER -> Num(5))])

\* A raw record of 0.35 acres in the first density band: a number of two
\* decimals on a tie of round(v, 1) that no binary float holds exactly.
ExampleAcres == Dict([k \in {"acresDuaLt10Sum"} |-> Number(35)])

\* Payloads that are no mapping: a list, a string, null.
NonMappings == { [kind |-> k, fields |-> <<>>] : k \in {"list", "str", "None"} }

Payloads ==
    UNION { UNION { { Dict(f) : f \in [S -> FieldValues] } : S \in SUBSET FS }
            : FS \in FieldSets }
    \cup { ExampleIncome, ExampleFire, ExampleAcres } \cup NonMappings

ScenarioNames == { "Scenario 1", "Scenario 2" }

Urls == { "", "https://host/a.csv", "https://host/missing.csv" }

\* A mapping all of whose present fields hold numbers.
NumericMapping(d) ==
    d.kind = "dict" /\ \A k \in DOMAIN d.fields : IsNum(d.fields[k])

----------------------------------------------------------------------------
(* One call of one normalizer *)

\* The page-load variables while no page is loaded.
NoPage ==
    /\ params = [project_id |-> [present |-> FALSE], simulation_ids |-> [present |-> FALSE]]
    /\ simulation_ids = <<>>
    /\ api_response = None
    /\ all_data = <<>>
    /\ idx = 0
    /\ st_info = <<>>
    /\ posts = <<>>
    /\ charts = <<>>

InitCall ==
    /\ NoPage
    /\ data_dict \in Payloads
    /\ scenario_name \in ScenarioNames
    /\ url = ""
    /\ df_len = 0
    /\ pc = "ready"
    /\ fn = ""
    /\ ret = NotCalled
    /\ st_error = <<>>
    /\ escaped = ""

Returns(f, o) ==
    /\ pc' = "returned"
    /\ fn' = f
    /\ ret' = o.ret
    /\ st_error' = st_error \o o.st_error
    /\ escaped' = o.escaped
    /\ UNCHANGED <<data_dict, scenario_name>>
    /\ UNCHANGED page_vars

CallDataLoader ==
    /\ pc = "ready"
    /\ Returns("data_loader.process_aggregation_data",
               data_loader_process_aggregation_data(data_dict, scenario_name))
    /\ UNCHANGED <<url, df_len>>

CallStreamlitApp ==
    /\ pc = "ready"
    /\ Returns("streamlit_app.process_aggregation_data",
               streamlit_app_process_aggregation_data(data_dict, scenario_name))
    /\ UNCHANGED <<url, df_len>>

\* The table at the url is a CSV of numbers: its header the keys of data_dict,
\* its first row their values.
CallLoadCsv ==
    /\ pc = "ready"
    /\ NumericMapping(data_dict)
    /\ \E u \in Urls, rows \in 0..1 :
        /\ url' = u
        /\ df_len' = rows
        /\ Returns("streamlit_app.load_data_from_aggregation_csv",
                   load_data_from_aggregation_csv(u, data_dict, rows, scenario_name))

----------------------------------------------------------------------------
(* The category labels and the colours of the charts *)

\* streamlit_app.py: the ordered label list of each group
income_brackets ==
    << "<=50% MFI", "51%-100% MFI", "101-150% MFI", "151-200% MFI", "201-250% MFI",
       ">251% MFI" >>

bedroom_counts == << "0 bedrooms", "1 bedroom", "2 bedrooms", "3+ bedrooms" >>

parking_types == << "Surface", "Garage", "Podium", "Structured", "Underground" >>

density_labels == << "<10 DUA", "11-25 DUA", "26-50 DUA", "51-75 DUA", ">75 DUA" >>

far_labels ==
    << "<0.2 FAR", "0.2-0.6 FAR", "0.6-1 FAR", "1-2 FAR", "2-4 FAR", ">4 FAR" >>

unit_types == << "SF", "TH", "PLEX", "MF" >>

tcac_levels == << "Low", "Moderate", "High", "Highest" >>

fire_risk_levels == << "None", "High", "Very High" >>

\* The label list streamlit_app.py charts group g with.
app_labels(g) ==
    CASE g = "income" -> income_brackets
      [] g = "bedroom" -> bedroom_counts
      [] g = "parking" -> parking_types
      [] g = "density" -> density_labels
      [] g = "far" -> far_labels
      [] g = "unit_type" -> unit_types
      [] g = "tcac" -> tcac_levels
      [] g = "fire_risk" -> fire_risk_levels

\* The labels that the colour mappings of streamlit_app.py give a colour.
app_colors(g) ==
    CASE g = "income" -> { "<=50% MFI", "51%-100% MFI", "101-150% MFI", "151-200% MFI",
                           "201-250% MFI", ">251% MFI" }
      [] g = "bedroom" -> { "0 bedrooms", "1 bedroom", "2 bedrooms", "3+ bedrooms" }
      [] g = "parking" -> { "Surface", "Garage", "Podium", "Structured", "Underground" }
      [] g = "density" -> { "<10 DUA", "11-25 DUA", "26-50 DUA", "51-75 DUA", ">75 DUA" }
      [] g = "far" -> { "<0.2 FAR", "0.2-0.6 FAR", "0.6-1 FAR", "1-2 FAR", "2-4 FAR",
                        ">4 FAR" }
      [] g = "unit_type" -> { "SF", "MF", "TH", "PLEX" }
      [] g = "tcac" -> { "Low", "Moderate", "High", "Highest" }
      [] g = "fire_risk" -> { "None", "High", "Very High" }

\* The labels that the colour mappings of colors.py give a colour.
colors_py(g) ==
    CASE g = "income" -> { "Market rate <=50% MFI", "Market rate 51%-100% MFI",
                           "Market rate 101-150% MFI", "Market rate 151-200% MFI",
                           "Market rate 201-250% MFI", "Market rate >251% MFI",
                           "Affordable <=50% AMI", "Affordable 50-80% AMI",
                           "Affordable 80-100% AMI", "Affordable 100-120% AMI",
                           "Affordable 120%+ AMI" }
      [] g = "bedroom" -> { "0 bedrooms", "1 bedroom", "2 bedrooms", "3+ bedrooms",
                            "Affordable 0 bedrooms", "Affordable 1 bedroom",
                            "Affordable 2 bedrooms", "Affordable 3+ bedrooms" }
      [] g = "parking" -> { "Surface", "Garage", "Podium", "Structured", "Underground" }
      [] g = "density" -> { "<10 DUA", "11-25 DUA", "26-50 DUA", "51-75 DUA", ">75 DUA" }
      [] g = "far" -> { "<0.2 FAR", "0.2-0.6 FAR", "0.6-1 FAR", "1-2 FAR", "2-4 FAR",
                        ">4 FAR" }
      [] g = "unit_type" -> { "sf", "mf", "th", "plex" }
      [] g = "tcac" -> { "Low", "Moderate", "High", "Highest", "Not TCAC" }
      [] g = "fire_risk" -> { "None", "High", "Very High" }

----------------------------------------------------------------------------
(* The page load of streamlit_app.py *)

\* The simulation ids the API knows, and one it does not.
KnownIds == { "a", "b" }

UnknownId == "c"

\* The pieces between the commas of the simulation_ids parameter; one carries
\* a space that strip() removes.
Pieces == KnownIds \cup { UnknownId, " b" }

\* sid.strip()
strip(sid) == IF sid = " b" THEN "b" ELSE sid

\* The most ids a request names.
MaxIds == 2

\* A query parameter: absent, or a string.  project_id is kept as the string,
\* simulation_ids as its pieces between commas ("" has the one piece "").
Absent == [present |-> FALSE]

ProjectIds == { Absent, [present |-> TRUE, s |-> ""],
                [present |-> TRUE, s |-> "StandardCalifornia"] }

SimulationIdParams ==
    { Absent, [present |-> TRUE, pieces |-> <<"">>] }
    \cup { [present |-> TRUE, pieces |-> q] :
             q \in UNION { [1..n -> Pieces] : n \in 1..MaxIds } }

\* not project_id
not_project_id(q) == ~q.present \/ q.s = ""

\* not simulation_ids_param
not_simulation_ids_param(q) == ~q.present \/ q.pieces = <<"">>

\* What the API holds for one simulation id: a list of raw records, the
\* mapping {metadata, data} of the interface description, or null.
Entries ==
    { [kind |-> "list", items |-> <<>>],
      [kind |-> "list", items |-> <<ExampleIncome>>],
      [kind |-> "list", items |-> <<ExampleFire>>],
      [kind |-> "list", items |-> <<Dict([k \in {"totalUnitsSum"} |-> NoneValue])>>],
      [kind |-> "list", items |-> <<Dict([k \in {"affordableUnitsSum"} |-> NoneValue])>>],
      [kind |-> "list", items |-> <<Dict([k \in {"unitsWuiSum"} |-> NoneValue])>>],
      [kind |-> "list", items |-> <<[kind |-> "str", fields |-> <<>>]>>],
      [kind |-> "dict", items |-> <<ExampleIncome>>],
      [kind |-> "None", items |-> <<>>] }

\* What the POST meets: an exception (no connection, the timeout), a status
\* other than 200, or status 200 with a JSON mapping of ids to entries.
Answers ==
    { [kind |-> "exception", status |-> 0, json |-> <<>>],
      [kind |-> "response", status |-> 500, json |-> <<>>] }
    \cup { [kind |-> "response", status |-> 200, json |-> j] :
             j \in UNION { [S -> Entries] : S \in SUBSET KnownIds } }

\* Mutant of post_json: only the first id is sent.
post_json_first_id(ids) == [simulation_ids |-> <<ids[1]>>]

\* json={"simulation_ids": simulation_ids}
post_json(ids) == [simulation_ids |-> ids]

\* requests.post(url, json=..., timeout=30), its url ending in project_id
post(project_id, ids) ==
    [url |-> "https://api.mapcraft.io/simulations/full_aggregations/" \o project_id,
     json |-> post_json(ids)]

\* What a POST met: an exception, or a response and its status.
met(answer) == [kind |-> answer.kind, status |-> answer.status]

\* Mutant of fetch_data_from_api: response.json() without the check of the
\* status.
fetch_data_from_api_unchecked(answer) ==
    try_except(IF answer.kind = "exception" THEN Raise("HTTPError")
               ELSE Return([kind |-> "dict", json |-> answer.json]),
               "Error fetching data from API")

\* fetch_data_from_api(simulation_ids, project_id), the POST meeting `answer`:
\* the JSON of a 200 response, else None after st.error.
fetch_data_from_api(answer) ==
    try_except(IF answer.kind = "exception" THEN Raise("HTTPError")
               ELSE IF answer.status # 200 THEN Return(None)
               ELSE Return([kind |-> "dict", json |-> answer.json]),
               "Error fetching data from API")

\* The st.error of a response whose status is not 200.
status_error(answer) ==
    IF answer.kind = "response" /\ answer.status # 200
    THEN << [text |-> "API request failed with status", e |-> ""] >>
    ELSE <<>>

\* data_loader.fetch_data_from_api(simulation_ids, project_id), called on its
\* own before there is a payload to normalize: the same statements as in
\* streamlit_app.py, with the url of the other endpoint.
CallFetchDataFromApi ==
    /\ pc = "ready"
    /\ data_dict.kind = "None"
    /\ \E answer \in Answers, ids \in { <<"a">>, <<"a", "b">> } :
        LET o == fetch_data_from_api(answer)
        IN  /\ posts' = Append(posts,
                    [request |->
                         [url |-> "https://api.mapcraft.io/simulations/aggregations_data/"
                                    \o "StandardCalifornia",
                          json |-> post_json(ids)],
                     met |-> met(answer)])
            /\ pc' = "returned"
            /\ fn' = "data_loader.fetch_data_from_api"
            /\ ret' = o.ret
            /\ st_error' = st_error \o status_error(answer) \o o.st_error
            /\ escaped' = o.escaped
    /\ UNCHANGED <<data_dict, scenario_name, url, df_len>>
    /\ UNCHANGED <<params, simulation_ids, api_response, all_data, idx, st_info, charts>>

\* Mutant of not_api_response: only None counts as no response.
not_api_response_none_only(r) == r = None

\* not api_response: None, or an empty mapping.
not_api_response(r) == r = None \/ DOMAIN r.json = {}

\* Mutant of scenario_name_of: the name counts from 0.
scenario_name_from_zero(k) == "Scenario " \o ToString(k - 1)

\* Mutant of scenario_name_of: every scenario gets the one name.
scenario_name_unnumbered(k) == "Scenario 1"

\* "Scenario {i+1}" for the position i+1 = k
scenario_name_of(k) == "Scenario " \o ToString(k)

Message(text) == [text |-> text, e |-> ""]

InitPage ==
    /\ params \in [project_id : ProjectIds, simulation_ids : SimulationIdParams]
    /\ simulation_ids = <<>>
    /\ api_response = None
    /\ all_data = <<>>
    /\ idx = 0
    /\ st_info = <<>>
    /\ posts = <<>>
    /\ charts = <<>>
    /\ data_dict = [kind |-> "None", fields |-> <<>>]
    /\ scenario_name = ""
    /\ url = ""
    /\ df_len = 0
    /\ pc = "project_id"
    /\ fn = ""
    /\ ret = NotCalled
    /\ st_error = <<>>
    /\ escaped = ""

\* st.stop() after the messages: the script run ends.
Stop(error, info) ==
    /\ pc' = "stopped"
    /\ st_error' = st_error \o error
    /\ st_info' = st_info \o info

\* project_id = params.get("project_id"); if not project_id: ...
CheckProjectId ==
    /\ pc = "project_id"
    /\ IF not_project_id(params.project_id)
       THEN Stop(<<Message("No project_id provided")>>,
                 <<"Please provide a project_id in the URL.">>)
       ELSE pc' = "simulation_ids" /\ UNCHANGED <<st_error, st_info>>
    /\ UNCHANGED <<params, simulation_ids, api_response, all_data, idx, posts, charts>>
    /\ UNCHANGED call_vars

\* simulation_ids_param = params.get("simulation_ids"); if not ...: ...;
\* simulation_ids = [sid.strip() for sid in simulation_ids_param.split(",")]
CheckSimulationIds ==
    /\ pc = "simulation_ids"
    /\ IF not_simulation_ids_param(params.simulation_ids)
       THEN /\ Stop(<<Message("No simulation IDs provided")>>,
                    <<"Please provide simulation IDs in the URL.">>)
            /\ UNCHANGED simulation_ids
       ELSE /\ pc' = "fetch"
            /\ simulation_ids' = [i \in DOMAIN params.simulation_ids.pieces |->
                                     strip(params.simulation_ids.pieces[i])]
            /\ UNCHANGED <<st_error, st_info>>
    /\ UNCHANGED <<params, api_response, all_data, idx, posts, charts>>
    /\ UNCHANGED call_vars

\* api_response = fetch_data_from_api(simulation_ids, project_id);
\* if not api_response: st.error(...); st.stop();  then all_data = []
Fetch ==
    /\ pc = "fetch"
    /\ \E answer \in Answers :
        LET o == fetch_data_from_api(answer)
        IN  /\ posts' = Append(posts, [request |-> post(params.project_id.s, simulation_ids),
                                       met |-> met(answer)])
            /\ api_response' = o.ret
            /\ IF not_api_response(o.ret)
               THEN /\ Stop(status_error(answer) \o o.st_error
                               \o <<Message("Failed to fetch data from API")>>, <<>>)
                    /\ UNCHANGED idx
               ELSE /\ pc' = "loop"
                    /\ idx' = 1
                    /\ st_error' = st_error \o status_error(answer) \o o.st_error
                    /\ UNCHANGED st_info
    /\ UNCHANGED <<params, simulation_ids, all_data, charts>>
    /\ UNCHANGED call_vars

\* Mutant of all_data_append: the record is put first.
all_data_insert_first(l, processed_data) == <<processed_data>> \o l

\* Mutant of all_data_append: a record equal to one already collected, but for
\* its name, is left out.
all_data_append_deduplicated(l, processed_data) ==
    IF \E i \in DOMAIN l :
           [l[i] EXCEPT !.scenario_name = ""] = [processed_data EXCEPT !.scenario_name = ""]
    THEN l
    ELSE Append(l, processed_data)

\* all_data.append(processed_data)
all_data_append(l, processed_data) == Append(l, processed_data)

\* Mutant of not_all_data: the check left out.
not_all_data_unchecked(l) == FALSE

\* not all_data
not_all_data(l) == l = <<>>

\* if data_list and len(data_list) > 0: a list with an item, or the mapping
\* {metadata, data}.
data_list_is_filled(entry) ==
    \/ entry.kind = "list" /\ Len(entry.items) > 0
    \/ entry.kind = "dict"

\* One round of: for i, sim_id in enumerate(simulation_ids).  data_list[0] of
\* a mapping raises KeyError outside every try: the script run ends with it.
LoopBody ==
    /\ pc = "loop"
    /\ idx <= Len(simulation_ids)
    /\ LET sim_id == simulation_ids[idx]
       IN  IF sim_id \in DOMAIN api_response.json
              /\ data_list_is_filled(api_response.json[sim_id])
           THEN IF api_response.json[sim_id].kind = "dict"
                THEN /\ pc' = "crashed"
                     /\ escaped' = "KeyError"
                     /\ UNCHANGED <<data_dict, scenario_name, fn, ret, st_error,
                                    all_data, idx>>
                ELSE LET raw_data == api_response.json[sim_id].items[1]
                         o == streamlit_app_process_aggregation_data(
                                  raw_data, scenario_name_of(idx))
                     IN  /\ data_dict' = raw_data
                         /\ scenario_name' = scenario_name_of(idx)
                         /\ fn' = "streamlit_app.process_aggregation_data"
                         /\ ret' = o.ret
                         /\ st_error' = st_error \o o.st_error
                         /\ all_data' = IF o.ret # None
                                        THEN all_data_append(all_data, o.ret)
                                        ELSE all_data
                         /\ idx' = idx + 1
                         /\ UNCHANGED <<pc, escaped>>
           ELSE /\ idx' = idx + 1
                /\ UNCHANGED <<data_dict, scenario_name, fn, ret, st_error, all_data,
                               pc, escaped>>
    /\ UNCHANGED <<params, simulation_ids, api_response, st_info, posts, charts,
                   url, df_len>>

\* After the loop: if not all_data: st.error(...); st.stop()
CheckAllData ==
    /\ pc = "loop"
    /\ idx > Len(simulation_ids)
    /\ IF not_all_data(all_data)
       THEN Stop(<<Message("Failed to load any data")>>, <<>>)
       ELSE pc' = "charts" /\ UNCHANGED <<st_error, st_info>>
    /\ UNCHANGED <<params, simulation_ids, api_response, all_data, idx, posts, charts>>
    /\ UNCHANGED call_vars

\* Chart 1, total feasibility: max() over the affordable units raises
\* TypeError when one of them is None.
ChartTotalFeasibility ==
    /\ pc = "charts"
    /\ charts = <<>>
    /\ IF \E i \in DOMAIN all_data : ~IsNum(all_data[i].affordable_units)
       THEN pc' = "crashed" /\ escaped' = "TypeError" /\ UNCHANGED charts
       ELSE charts' = <<"total feasibility">> /\ UNCHANGED <<pc, escaped>>
    /\ UNCHANGED <<params, simulation_ids, api_response, all_data, idx, st_info, posts>>
    /\ UNCHANGED <<data_dict, scenario_name, url, df_len, fn, ret, st_error>>

\* The charts after the first, in the order of the script.
LaterCharts ==
    << "location", "unit type", "tcac", "income", "bedroom", "parking", "density",
       "far", "fire risk" >>

\* Chart 2, units by location, compares each count with 0 and raises TypeError
\* on None; the charts after it read the lists of numbers.
ChartsAfterTheFirst ==
    /\ pc = "charts"
    /\ charts = <<"total feasibility">>
    /\ IF \E i \in DOMAIN all_data :
             \E k \in DOMAIN all_data[i].location_data :
                 ~IsNum(all_data[i].location_data[k])
       THEN pc' = "crashed" /\ escaped' = "TypeError" /\ UNCHANGED charts
       ELSE charts' = charts \o LaterCharts /\ pc' = "done" /\ UNCHANGED escaped
    /\ UNCHANGED <<params, simulation_ids, api_response, all_data, idx, st_info, posts>>
    /\ UNCHANGED <<data_dict, scenario_name, url, df_len, fn, ret, st_error>>

----------------------------------------------------------------------------
(* The specification: one call of a normalizer, or one page load *)

Init == InitCall \/ InitPage

Next ==
    \/ CallDataLoader
    \/ CallStreamlitApp
    \/ CallLoadCsv
    \/ CallFetchDataFromApi
    \/ CheckProjectId
    \/ CheckSimulationIds
    \/ Fetch
    \/ LoopBody
    \/ CheckAllData
    \/ ChartTotalFeasibility
    \/ ChartsAfterTheFirst

Spec == Init /\ [][Next]_vars

----------------------------------------------------------------------------
(* Reading a returned record and the raw record it was made from *)

DataLoaderFn == "data_loader.process_aggregation_data"

StreamlitAppFn == "streamlit_app.process_aggregation_data"

LoadCsvFn == "streamlit_app.load_data_from_aggregation_csv"

FetchFn == "data_loader.fetch_data_from_api"

ProcessFns == { DataLoaderFn, StreamlitAppFn }

Groups == { "income", "bedroom", "parking", "density", "far", "unit_type", "tcac",
            "fire_risk" }

ValuesOf(r, g) ==
    CASE g = "income" -> r.income_values
      [] g = "bedroom" -> r.bedroom_values
      [] g = "parking" -> r.parking_values
      [] g = "density" -> r.density_values
      [] g = "far" -> r.far_values
      [] g = "unit_type" -> r.unit_type_values
      [] g = "tcac" -> r.tcac_values
      [] g = "fire_risk" -> r.fire_risk_values

PctOf(r, g) ==
    CASE g = "income" -> r.income_pct
      [] g = "bedroom" -> r.bedroom_pct
      [] g = "parking" -> r.parking_pct
      [] g = "density" -> r.density_pct
      [] g = "far" -> r.far_pct
      [] g = "unit_type" -> r.unit_type_pct
      [] g = "tcac" -> r.tcac_pct
      [] g = "fire_risk" -> r.fire_risk_pct

\* The raw field k as the called function met it: absent fields, and every
\* field of a table without rows, count 0.
Field(k) ==
    IF /\ data_dict.kind = "dict"
       /\ k \in DOMAIN data_dict.fields
       /\ (fn = LoadCsvFn => df_len > 0)
    THEN data_dict.fields[k]
    ELSE Number(0)

SchemaOf(f) ==
    IF f = DataLoaderFn THEN data_loader_schema
    ELSE IF f = LoadCsvFn THEN csv_schema
    ELSE streamlit_app_schema

\* The raw numbers of group g, in order, for the function that was called.
RawOf(g) ==
    LET list(keys) == [i \in DOMAIN keys |-> Field(keys[i]).v]
    IN  CASE g = "income" -> list(SchemaOf(fn).income)
          [] g = "bedroom" -> list(SchemaOf(fn).bedroom)
          [] g = "parking" -> list(parking_keys)
          [] g = "density" -> list(density_keys)
          [] g = "far" -> list(far_keys)
          [] g = "unit_type" -> list(unit_type_keys)
          [] g = "tcac" -> list(SchemaOf(fn).tcac)
          [] g = "fire_risk" ->
               << Field("totalUnitsSum").v - Field(SchemaOf(fn).fire_high).v
                      - Field(SchemaOf(fn).fire_very_high).v,
                  Field(SchemaOf(fn).fire_high).v,
                  Field(SchemaOf(fn).fire_very_high).v >>

\* A normalizer returned a record.
ReturnedRecord == pc = "returned" /\ fn # FetchFn /\ ret.kind = "dict"

\* A process_aggregation_data returned from a mapping of numbers.
ProcessedNumbers == pc = "returned" /\ fn \in ProcessFns /\ NumericMapping(data_dict)

\* data_dict with every absent key set to 0.
FillZero(d) ==
    Dict([k \in AllKeys \cup DOMAIN d.fields |->
            IF k \in DOMAIN d.fields THEN d.fields[k] ELSE Number(0)])

ResultOf(f, d, name) ==
    IF f = DataLoaderFn THEN data_loader_process_aggregation_data(d, name)
    ELSE streamlit_app_process_aggregation_data(d, name)

----------------------------------------------------------------------------
(* The claims *)

\* C1: from a mapping whose present fields are numbers, whatever keys are
\* absent, process_aggregation_data returns a record, raises nothing, and
\* returns the record it returns for the same mapping with every absent key
\* set to 0.
C1_AbsentKeysAreZero ==
    ProcessedNumbers =>
        /\ ret.kind = "dict"
        /\ escaped = ""
        /\ st_error = <<>>
        /\ ret = ResultOf(fn, FillZero(data_dict), scenario_name).ret

\* C1 witness: a record returned from a mapping that lacks a key of a group
\* whose other key holds a number above 0.
C1_Witness ==
    /\ ProcessedNumbers
    /\ ret.kind = "dict"
    /\ "marketUnits050Sum" \notin DOMAIN data_dict.fields
    /\ "marketUnits51100Sum" \in DOMAIN data_dict.fields
    /\ data_dict.fields["marketUnits51100Sum"].v > 0

\* C2: in every returned record a group whose raw values sum to 0 has only
\* percentages 0, no division by that zero total is evaluated (none is ever
\* reported), and this is per group: in the same record a group with a
\* positive total keeps percentages that are not all 0.
C2_ZeroTotalGivesZeroPercentages ==
    /\ \A i \in DOMAIN st_error : st_error[i].e # "ZeroDivisionError"
    /\ ReturnedRecord =>
        \A g \in Groups :
            /\ SumSeq(RawOf(g)) = 0 =>
                   \A i \in DOMAIN PctOf(ret, g) : PctOf(ret, g)[i] = 0
            /\ SumSeq(RawOf(g)) > 0 =>
                   \E i \in DOMAIN PctOf(ret, g) : PctOf(ret, g)[i] # 0

\* C2 witness: a record whose income group has total 0 and percentages 0
\* beside a parking group with a positive total and a percentage of 100.
C2_Witness ==
    /\ ReturnedRecord
    /\ "marketUnits050Sum" \in DOMAIN data_dict.fields
    /\ SumSeq(RawOf("income")) = 0
    /\ ret.income_pct = [i \in DOMAIN ret.income_pct |-> 0]
    /\ SumSeq(RawOf("parking")) > 0
    /\ ret.parking_pct[1] = Num(100)

\* The rounding tolerance of a group's percentage sum, in hundredths: half a
\* unit of the rounding precision for each bucket, 0.5 for the groups rounded
\* to whole numbers and 0.05 for the groups rounded to one decimal.
Tolerance(g) ==
    Len(PctOf(ret, g)) * (IF g \in {"income", "bedroom", "parking"} THEN 50 ELSE 5)

\* C3: in every returned record the percentages of a group sum to 0 or to
\* within the rounding tolerance of 100; they sum to 0 when all raw values of
\* the group are 0, and to within the tolerance of 100 whenever the group's
\* total is above 0, a negative fire-risk 'none' value included.
C3_PercentagesSumTo0Or100 ==
    ReturnedRecord =>
        \A g \in Groups :
            LET s == SumSeq(PctOf(ret, g))
            IN  /\ s = 0 \/ Abs(s - Num(100)) <= Tolerance(g)
                /\ (\A i \in DOMAIN RawOf(g) : RawOf(g)[i] = 0) => s = 0
                /\ SumSeq(RawOf(g)) > 0 => Abs(s - Num(100)) <= Tolerance(g)

\* C3 witness: a record whose fire-risk 'none' value is negative while the
\* total is above 0, and whose percentages (one of them negative) sum to 100.
C3_Witness ==
    /\ ReturnedRecord
    /\ RawOf("fire_risk")[1] < 0
    /\ ret.fire_risk_pct[1] < 0
    /\ SumSeq(ret.fire_risk_pct) = Num(100)

\* The lists of group g of record r are as long as the label list of
\* streamlit_app.py, every label of which has a colour there and no other has.
AlignedWithApp(r, g) ==
    /\ Len(ValuesOf(r, g)) = Len(PctOf(r, g))
    /\ Len(ValuesOf(r, g)) = Len(app_labels(g))
    /\ Range(app_labels(g)) = app_colors(g)
    /\ Cardinality(app_colors(g)) = Len(app_labels(g))

\* The lists of group g of record r are as long as the colour mapping of
\* colors.py.
AlignedWithColorsPy(r, g) ==
    /\ Len(ValuesOf(r, g)) = Len(PctOf(r, g))
    /\ Len(ValuesOf(r, g)) = Cardinality(colors_py(g))

\* C4 as claimed: in every record of the collection and every record a
\* normalizer returns, each group's values and percentages are as long as the
\* labels and colours its module charts the group with (streamlit_app.py its
\* own, data_loader.py those of colors.py).
C4_ListsAlignedWithLabels ==
    /\ \A i \in DOMAIN all_data : \A g \in Groups : AlignedWithApp(all_data[i], g)
    /\ ReturnedRecord =>
        \A g \in Groups :
            IF fn = DataLoaderFn THEN AlignedWithColorsPy(ret, g)
            ELSE AlignedWithApp(ret, g)

\* What the code does keep: in every record of the collection, and every
\* record a normalizer of streamlit_app.py returns, each group's values and
\* percentages have the length of the label list and of the colour mapping of
\* streamlit_app.py.  In a record of data_loader.process_aggregation_data the
\* two lists of a group are equally long, and as long as the colour mapping of
\* colors.py for every group but income, which has 15 values for 11 colours.
ListsAlignedWithAppLabels ==
    /\ \A i \in DOMAIN all_data : \A g \in Groups : AlignedWithApp(all_data[i], g)
    /\ ReturnedRecord =>
        \A g \in Groups :
            IF fn # DataLoaderFn THEN AlignedWithApp(ret, g)
            ELSE IF g # "income" THEN AlignedWithColorsPy(ret, g)
            ELSE /\ Len(ret.income_values) = Len(dl_income_keys)
                 /\ Len(ret.income_pct) = Len(dl_income_keys)
                 /\ Cardinality(colors_py(g)) < Len(dl_income_keys)

C5_WitnessDataLoader ==
    ReturnedRecord /\ fn = DataLoaderFn /\ ret.fire_risk_values[1] < 0

C5_WitnessStreamlitApp ==
    ReturnedRecord /\ fn = StreamlitAppFn /\ ret.fire_risk_values[1] < 0

\* C6 as claimed: in every returned record the three stored fire-risk values
\* sum to the stored total_units, fractional field values included.
C6_StoredFireValuesSumToTotal ==
    ReturnedRecord =>
        ret.fire_risk_values[1] + ret.fire_risk_values[2] + ret.fire_risk_values[3]
            = ret.total_units.v

\* The three fields of the fire-risk derivation hold whole numbers.
WholeFireFields ==
    \A k \in { "totalUnitsSum", SchemaOf(fn).fire_high, SchemaOf(fn).fire_very_high } :
        Field(k).v % 100 = 0

\* C6 amended: the three stored fire-risk values sum to the stored
\* total_units when the total, the high count and the very-high count are
\* whole numbers.
C6_StoredFireValuesSumToWholeTotal ==
    (ReturnedRecord /\ WholeFireFields) =>
        ret.fire_risk_values[1] + ret.fire_risk_values[2] + ret.fire_risk_values[3]
            = ret.total_units.v

\* C6 witness: whole numbers with a negative 'none' value, summing to the total.
C6_Witness ==
    /\ ReturnedRecord
    /\ WholeFireFields
    /\ ret.total_units.v > 0
    /\ ret.fire_risk_values[1] < 0
    /\ ret.fire_risk_values[3] > 0

\* The six market-rate income bands, in band order.
MarketBands ==
    << "marketUnits050Sum", "marketUnits51100Sum", "marketUnits101150Sum",
       "marketUnits151200Sum", "marketUnits201250Sum", "marketUnits251Sum" >>

\* The example's lists: 30, 70 and four 0.
ExampleSix == << Num(30), Num(70), 0, 0, 0, 0 >>

\* The raw record holds none of the affordable income bands.
OnlyMarketIncome ==
    \A k \in DOMAIN data_dict.fields :
        \A i \in DOMAIN dl_income_keys : i > 6 => k # dl_income_keys[i]

\* C7 as claimed: each process_aggregation_data returns for the example
\* record income_values [30, 70, 0, 0, 0, 0] and income_pct [30, 70, 0, 0, 0, 0].
C7_ExampleIncomeSixBands ==
    (pc = "returned" /\ fn \in ProcessFns /\ data_dict = ExampleIncome) =>
        /\ ret.kind = "dict"
        /\ ret.income_values = ExampleSix
        /\ ret.income_pct = ExampleSix

\* C7 amended: streamlit_app.process_aggregation_data returns the six
\* market-rate band values in band order and their six whole-number
\* percentages, [30, 70, 0, 0, 0, 0] twice for the example; the lists of
\* data_loader.process_aggregation_data have 15 entries, these six followed by
\* nine affordable bands, which are 0 for a record without affordable bands.
C7_IncomeBandsBySchema ==
    (ProcessedNumbers /\ OnlyMarketIncome) =>
        /\ ret.kind = "dict"
        /\ Len(ret.income_values) = (IF fn = StreamlitAppFn THEN 6 ELSE 15)
        /\ Len(ret.income_pct) = Len(ret.income_values)
        /\ \A i \in 1..6 :
            /\ ret.income_values[i] = Round1(Field(MarketBands[i]).v)
            /\ ret.income_pct[i] % 100 = 0
        /\ \A i \in 7..Len(ret.income_values) :
            ret.income_values[i] = 0 /\ ret.income_pct[i] = 0
        /\ data_dict = ExampleIncome =>
            /\ SubSeq(ret.income_values, 1, 6) = ExampleSix
            /\ SubSeq(ret.income_pct, 1, 6) = ExampleSix

\* C7 witness: streamlit_app.process_aggregation_data returned the example's
\* lists.
C7_Witness ==
    /\ pc = "returned"
    /\ fn = StreamlitAppFn
    /\ data_dict = ExampleIncome
    /\ ret.income_values = ExampleSix
    /\ ret.income_pct = ExampleSix

\* C7 witness for data_loader: 15 entries for the example.
C7_WitnessDataLoader ==
    /\ pc = "returned"
    /\ fn = DataLoaderFn
    /\ data_dict = ExampleIncome
    /\ Len(ret.income_values) = 15

\* C8 as claimed: each process_aggregation_data returns for the example
\* record fire_risk_values [35, 10, 5].
C8_ExampleFireValues ==
    (pc = "returned" /\ fn \in ProcessFns /\ data_dict = ExampleFire) =>
        /\ ret.kind = "dict"
        /\ ret.fire_risk_values = << Num(35), Num(10), Num(5) >>

\* C8 amended: data_loader.process_aggregation_data reads the counts from
\* unitsFireHazardHighSum and unitsFireHazardVeryHighSum and returns
\* [35, 10, 5] for the example; streamlit_app.process_aggregation_data reads
\* them from unitsFhszHighSum and unitsFhszVeryhighSum and returns [50, 0, 0]
\* for it.  Both read the total from totalUnitsSum.
C8_FireFieldsBySchema ==
    ProcessedNumbers =>
        LET high == IF fn = DataLoaderFn THEN "unitsFireHazardHighSum"
                    ELSE "unitsFhszHighSum"
            very_high == IF fn = DataLoaderFn THEN "unitsFireHazardVeryHighSum"
                         ELSE "unitsFhszVeryhighSum"
        IN  /\ ret.kind = "dict"
            /\ ret.fire_risk_values[2] = Round1(Field(high).v)
            /\ ret.fire_risk_values[3] = Round1(Field(very_high).v)
            /\ ret.total_units = Field("totalUnitsSum")
            /\ data_dict = ExampleFire =>
                ret.fire_risk_values =
                    IF fn = DataLoaderFn THEN << Num(35), Num(10), Num(5) >>
                    ELSE << Num(50), 0, 0 >>

\* C8 witness: data_loader.process_aggregation_data returned [35, 10, 5].
C8_Witness ==
    /\ pc = "returned"
    /\ fn = DataLoaderFn
    /\ data_dict = ExampleFire
    /\ ret.fire_risk_values = << Num(35), Num(10), Num(5) >>

\* C8 witness for streamlit_app: [50, 0, 0] for the example.
C8_WitnessStreamlitApp ==
    /\ pc = "returned"
    /\ fn = StreamlitAppFn
    /\ data_dict = ExampleFire
    /\ ret.fire_risk_values = << Num(50), 0, 0 >>

\* Every percentage of group g is a multiple of `unit` hundredths no further
\* than half of it from the exact v / total * 100.
RoundedTo(g, unit) ==
    LET total == SumSeq(RawOf(g))
    IN  total > 0 =>
            \A i \in DOMAIN PctOf(ret, g) :
                /\ PctOf(ret, g)[i] % unit = 0
                /\ 2 * Abs(PctOf(ret, g)[i] * total - RawOf(g)[i] * Num(100))
                       <= unit * total

\* C9 as claimed: density, far, tcac and fire_risk percentages are rounded to
\* one decimal, those of income, bedroom, parking and unit_type to whole
\* numbers.
C9_UnitTypeWholePercentages ==
    ReturnedRecord =>
        /\ \A g \in {"density", "far", "tcac", "fire_risk"} : RoundedTo(g, 10)
        /\ \A g \in {"income", "bedroom", "parking", "unit_type"} : RoundedTo(g, 100)

\* C9 amended: density, far, unit_type, tcac and fire_risk percentages are
\* rounded to one decimal, those of income, bedroom and parking to whole
\* numbers.
C9_PrecisionPerGroup ==
    ReturnedRecord =>
        /\ \A g \in {"density", "far", "unit_type", "tcac", "fire_risk"} :
               RoundedTo(g, 10)
        /\ \A g \in {"income", "bedroom", "parking"} : RoundedTo(g, 100)

\* C9 witness: a unit_type percentage with a decimal beside none in income.
C9_Witness ==
    /\ ReturnedRecord
    /\ \E i \in DOMAIN ret.unit_type_pct : ret.unit_type_pct[i] % 100 # 0
    /\ \E i \in DOMAIN ret.unit_type_pct : ret.unit_type_pct[i] = 3330

\* C9 witness of a whole-number group: a third rounded to 33.
C9_WitnessWhole ==
    /\ ReturnedRecord
    /\ \E i \in DOMAIN ret.income_pct : ret.income_pct[i] = Num(33)

\* A group that process_aggregation_data sums, or the fire-risk derivation,
\* reads a field that holds no number.
ReadsNonNumber ==
    /\ data_dict.kind = "dict"
    /\ \E k \in DOMAIN data_dict.fields :
        /\ ~IsNum(data_dict.fields[k])
        /\ k \in UNION { Range(RawKeys) :
                           RawKeys \in { SchemaOf(fn).income, SchemaOf(fn).bedroom,
                                         parking_keys, density_keys, far_keys,
                                         unit_type_keys, SchemaOf(fn).tcac,
                                         << "totalUnitsSum", SchemaOf(fn).fire_high,
                                            SchemaOf(fn).fire_very_high >> } }

\* C10: no exception leaves process_aggregation_data; when its statements
\* raise (the payload is no mapping, or a summed field holds no number) it
\* passes a message to st.error and returns None, and it returns None only so.
C10_ExceptionsBecomeNone ==
    (pc = "returned" /\ fn \in ProcessFns) =>
        /\ escaped = ""
        /\ ret.kind \in {"None", "dict"}
        /\ (data_dict.kind # "dict" \/ ReadsNonNumber) <=> ret = None
        /\ ret = None <=> st_error # <<>>
        /\ st_error # <<>> => st_error[1].text = "Error processing aggregation data"

\* C10 witness: a payload that is a list came back as None with a message.
C10_Witness ==
    /\ pc = "returned"
    /\ fn \in ProcessFns
    /\ data_dict.kind = "list"
    /\ ret = None
    /\ Len(st_error) = 2
    /\ escaped = ""

\* C10 witness of a field that holds no number.
C10_WitnessNonNumber ==
    /\ pc = "returned"
    /\ fn = StreamlitAppFn
    /\ ReadsNonNumber
    /\ ret = None
    /\ st_error[1].e = "TypeError"

----------------------------------------------------------------------------
(* The collection builder and the page load *)

\* The positions in the request list that carry the scenario name of record r
\* ("Scenario k" names position k).
PositionsOf(r) ==
    { k \in 1..Len(simulation_ids) : scenario_name_of(k) = r.scenario_name }

\* C11: at every point of the page load the records of the collection stand
\* in the order of their positions in the request list: every record comes
\* from one position the loop has passed, whose id the response holds, and the
\* positions of the records are strictly increasing along the collection.
C11_CollectionInRequestOrder ==
    /\ \A i \in DOMAIN all_data :
        /\ Cardinality(PositionsOf(all_data[i])) = 1
        /\ \A k \in PositionsOf(all_data[i]) :
            k < idx /\ simulation_ids[k] \in DOMAIN api_response.json
    /\ \A i, j \in DOMAIN all_data :
        i < j => \A p \in PositionsOf(all_data[i]), q \in PositionsOf(all_data[j]) : p < q

\* C11 witness: the ids were requested as b, a (not in sorted order) and the
\* record of b stands before the record of a.
C11_Witness ==
    /\ simulation_ids = << "b", "a" >>
    /\ Len(all_data) = 2
    /\ all_data[1].scenario_name = "Scenario 1"
    /\ all_data[2].scenario_name = "Scenario 2"
    /\ all_data[1].total_units # all_data[2].total_units
    /\ all_data[1] = streamlit_app_process_aggregation_data(
                         api_response.json["b"].items[1], "Scenario 1").ret

\* The loop over simulation_ids has ended.
Finished == idx > Len(simulation_ids)

\* The raw fields streamlit_app.process_aggregation_data computes with.
AppComputedKeys ==
    Range(app_income_keys) \cup Range(app_bedroom_keys) \cup Range(parking_keys)
    \cup Range(density_keys) \cup Range(far_keys) \cup Range(unit_type_keys)
    \cup Range(app_tcac_keys)
    \cup { "totalUnitsSum", app_fire_high_key, app_fire_very_high_key }

\* A first record that normalizes: a mapping whose computed fields, where
\* present, hold numbers.
Normalizes(raw) ==
    /\ raw.kind = "dict"
    /\ \A k \in DOMAIN raw.fields \cap AppComputedKeys : IsNum(raw.fields[k])

\* The request position k has its id in the response, with a list that is not
\* empty and whose first record normalizes.
Collectable(k) ==
    /\ simulation_ids[k] \in DOMAIN api_response.json
    /\ LET data_list == api_response.json[simulation_ids[k]]
       IN  /\ data_list.kind = "list"
           /\ Len(data_list.items) > 0
           /\ Normalizes(data_list.items[1])

\* C12: when the loop has ended the collection holds one record for each
\* collectable request position and none for any other, each named after its
\* position and carrying the total of its raw record; with two ids requested
\* of which one is in the response, and collectable, the collection is the one
\* record named after the position found and no error was emitted.
C12_OneRecordPerCollectablePosition ==
    Finished =>
        LET collectable == { k \in 1..Len(simulation_ids) : Collectable(k) }
        IN  /\ Len(all_data) = Cardinality(collectable)
            /\ UNION { PositionsOf(all_data[i]) : i \in DOMAIN all_data } = collectable
            /\ \A i \in DOMAIN all_data : \A k \in PositionsOf(all_data[i]) :
                LET raw == api_response.json[simulation_ids[k]].items[1]
                IN  all_data[i].total_units =
                        IF "totalUnitsSum" \in DOMAIN raw.fields
                        THEN raw.fields["totalUnitsSum"] ELSE Number(0)
            /\ \A found \in 1..2 :
                (/\ Len(simulation_ids) = 2
                 /\ Collectable(found)
                 /\ simulation_ids[3 - found] \notin DOMAIN api_response.json)
                => /\ Len(all_data) = 1
                   /\ all_data[1].scenario_name =
                          (IF found = 1 THEN "Scenario 1" ELSE "Scenario 2")
                   /\ st_error = <<>>

\* C12 witness: two ids requested, the first unknown to the response, the
\* second collected as the one record, Scenario 2.
C12_Witness ==
    /\ Finished
    /\ Len(simulation_ids) = 2
    /\ simulation_ids[1] \notin DOMAIN api_response.json
    /\ Collectable(2)
    /\ Len(all_data) = 1
    /\ all_data[1].scenario_name = "Scenario 2"
    /\ st_error = <<>>

\* The entry of request position k is malformed: a first record that is no
\* mapping or does not normalize, or a mapping where the list is expected.
Malformed(k) ==
    /\ simulation_ids[k] \in DOMAIN api_response.json
    /\ LET data_list == api_response.json[simulation_ids[k]]
       IN  \/ data_list.kind = "dict"
           \/ data_list.kind = "list" /\ Len(data_list.items) > 0
                  /\ ~Normalizes(data_list.items[1])

\* C13 as claimed: a malformed entry is left out and aborts nothing: when the
\* page load is past the loop, or has ended, every request position that is
\* collectable has its record in the collection, whatever entries are
\* malformed.
C13_MalformedEntryAbortsNothing ==
    (/\ pc \in {"crashed", "stopped", "charts", "done"}
     /\ idx >= 1
     /\ \E m \in 1..Len(simulation_ids) : Malformed(m)) =>
        \A k \in 1..Len(simulation_ids) :
            Collectable(k) => \E i \in DOMAIN all_data : k \in PositionsOf(all_data[i])

\* What the code does keep: an entry whose first record is no mapping, or does
\* not normalize, is left out with a message and the loop goes on to the
\* siblings; a mapping where the list is expected ends the run with KeyError
\* at that position, before the siblings after it and before the check of the
\* collection.
MalformedFirstRecordIsSkipped ==
    (idx >= 1 /\ \E m \in 1..Len(simulation_ids) : Malformed(m)) =>
        /\ (pc = "crashed" /\ ~Finished) =>
               /\ escaped = "KeyError"
               /\ api_response.json[simulation_ids[idx]].kind = "dict"
        /\ \A k \in 1..Len(simulation_ids) :
            (k < idx /\ Collectable(k)) =>
                \E i \in DOMAIN all_data : k \in PositionsOf(all_data[i])
        /\ \A k \in 1..Len(simulation_ids) :
            (k < idx /\ Malformed(k)) =>
                /\ st_error # <<>>
                /\ \A i \in DOMAIN all_data : k \notin PositionsOf(all_data[i])

\* A chart-building step has been reached: the script is at the charts, has
\* built one, or ended in one.
AtCharts ==
    \/ pc \in {"charts", "done"}
    \/ charts # <<>>
    \/ pc = "crashed" /\ Finished

\* C14: a chart-building step is reached only with a collection that is not
\* empty; when the loop has ended with an empty collection the page load
\* emits the error "Failed to load any data" and stops with no chart built.
C14_ChartsOnlyWithRecords ==
    /\ AtCharts => all_data # <<>>
    /\ (Finished /\ pc # "loop" /\ all_data = <<>>) =>
        /\ pc = "stopped"
        /\ charts = <<>>
        /\ st_error # <<>>
        /\ st_error[Len(st_error)] = Message("Failed to load any data")

\* C14 witness: the one requested scenario failed to normalize; the page load
\* reported that, then the empty collection, and stopped without a chart.
C14_Witness ==
    /\ Finished
    /\ pc = "stopped"
    /\ all_data = <<>>
    /\ charts = <<>>
    /\ Len(st_error) = 3
    /\ st_error[1].text = "Error processing aggregation data"
    /\ st_error[3] = Message("Failed to load any data")

\* C14 witness of the other side: charts built from a collection of records.
C14_WitnessCharts ==
    pc = "done" /\ Len(charts) = 10 /\ Len(all_data) = 1

\* The state belongs to a page load, not to a call of one function.
PageLoad == pc \notin {"ready", "returned"}

\* The one st.info text of the script that holds an example: that of the
\* handler `except Exception` around the parameter checks and the fetch.
guidance_with_example ==
    "Please ensure you provide both project_id and simulation_ids in the URL. "
    \o "Example: ?project_id=StandardCalifornia&simulation_ids=-Ogiwnj-fYy4wjWPOn8-,-Ogiwo-hmQWX6i7THCN2"

\* A required query parameter is absent or empty.
MissingParameter ==
    \/ not_project_id(params.project_id)
    \/ not_simulation_ids_param(params.simulation_ids)

\* The page load with a missing parameter fetches nothing, normalizes nothing,
\* builds no chart, and stops at the check of the first parameter that is
\* missing, project_id before simulation_ids, with that check's error.
MissingParameterHalts ==
    /\ posts = <<>>
    /\ fn = ""
    /\ all_data = <<>>
    /\ charts = <<>>
    /\ escaped = ""
    /\ pc \in {"project_id", "simulation_ids", "stopped"}
    /\ pc = "simulation_ids" => ~not_project_id(params.project_id)
    /\ pc = "stopped" =>
        st_error = << Message(IF not_project_id(params.project_id)
                              THEN "No project_id provided"
                              ELSE "No simulation IDs provided") >>

\* C15 as claimed: a page load with project_id or simulation_ids absent or
\* empty halts without a fetch, a normalization or a chart, project_id being
\* checked first, and shows an error plus guidance text with an example.
C15_MissingParameterShowsExample ==
    (PageLoad /\ MissingParameter) =>
        /\ MissingParameterHalts
        /\ pc = "stopped" =>
            \E i \in DOMAIN st_info : st_info[i] = guidance_with_example

\* What the code does keep: the same, the guidance text being one sentence
\* that asks for the parameter and holds no example.
MissingParameterShowsGuidance ==
    (PageLoad /\ MissingParameter) =>
        /\ MissingParameterHalts
        /\ pc = "stopped" =>
            st_info = << IF not_project_id(params.project_id)
                         THEN "Please provide a project_id in the URL."
                         ELSE "Please provide simulation IDs in the URL." >>

\* The POST p failed: an exception (no connection, the timeout elapsing) or a
\* response whose status is not 200.
FetchFailed(p) == p.met.kind = "exception" \/ p.met.status # 200

\* C16: when the fetch fails, fetch_data_from_api emits an error message and
\* returns None and no exception leaves it; the page load then emits "Failed
\* to fetch data from API" and stops with nothing normalized and no chart.
C16_FailedFetchHalts ==
    \A i \in DOMAIN posts :
        FetchFailed(posts[i]) =>
            /\ escaped = ""
            /\ st_error # <<>>
            /\ st_error[1].text =
                   (IF posts[i].met.kind = "exception" THEN "Error fetching data from API"
                    ELSE "API request failed with status")
            /\ pc = "returned" => ret = None
            /\ PageLoad =>
                /\ api_response = None
                /\ pc = "stopped"
                /\ st_error[Len(st_error)] = Message("Failed to fetch data from API")
                /\ fn = ""
                /\ all_data = <<>>
                /\ charts = <<>>

\* C16 witness: the request of a page load raised; the page load stopped after
\* the two messages of fetch_data_from_api and its own.
C16_Witness ==
    /\ PageLoad
    /\ Len(posts) = 1
    /\ posts[1].met.kind = "exception"
    /\ pc = "stopped"
    /\ Len(st_error) = 3
    /\ api_response = None

\* C16 witness of a status other than 200, for data_loader.fetch_data_from_api.
C16_WitnessStatus ==
    /\ pc = "returned"
    /\ fn = FetchFn
    /\ posts[1].met = [kind |-> "response", status |-> 500]
    /\ ret = None
    /\ Len(st_error) = 1

\* C17: a page load calls fetch_data_from_api at most once, with the whole
\* list of requested ids in the one request, however many were requested: no
\* request before the fetch step, one after it, and none added after a fetch
\* that failed.
C17_AtMostOneFetch ==
    /\ Len(posts) <= 1
    /\ PageLoad =>
        /\ pc \in {"project_id", "simulation_ids", "fetch"} => posts = <<>>
        /\ pc \in {"loop", "charts", "done", "crashed"} => Len(posts) = 1
        /\ \A i \in DOMAIN posts :
            /\ posts[i].request.json.simulation_ids = simulation_ids
            /\ posts[i].request.url =
                   "https://api.mapcraft.io/simulations/full_aggregations/"
                       \o params.project_id.s

\* C17 witness: two ids were requested in one request, which failed; the page
\* load stopped with that one request made.
C17_Witness ==
    /\ PageLoad
    /\ pc = "stopped"
    /\ Len(simulation_ids) = 2
    /\ Len(posts) = 1
    /\ FetchFailed(posts[1])
    /\ posts[1].request.json.simulation_ids = simulation_ids

\* C18 as claimed: no failure is silent: when fetch_data_from_api,
\* process_aggregation_data or load_data_from_aggregation_csv has returned
\* None, and when the page load has stopped before the charts, an error
\* message has been passed to st.error.
C18_NoSilentFailure ==
    /\ (pc = "returned" /\ ret = None) => st_error # <<>>
    /\ pc = "stopped" => st_error # <<>>

\* What the code does keep: the same, but for load_data_from_aggregation_csv
\* called with an empty url, which returns None and emits nothing.
NoSilentFailureButEmptyUrl ==
    /\ (pc = "returned" /\ ret = None) =>
        IF fn = LoadCsvFn /\ url = "" THEN st_error = <<>> ELSE st_error # <<>>
    /\ pc = "stopped" => st_error # <<>>

\* The rounding unit of the percentages of group g, in hundredths.
PctUnit(g) == IF g \in {"income", "bedroom", "parking"} THEN 100 ELSE 10

\* C19: in every returned record each stored value of a group is the raw
\* value (0 when absent; for fire_risk 'none' the unrounded difference)
\* rounded to one decimal, while the total and the percentages come from the
\* unrounded raw values: each percentage is v / total * 100 of the raw v and
\* the raw total, rounded to the group's precision, and 0 when the raw total
\* is not above 0.
C19_StoredRoundedPercentagesFromRaw ==
    ReturnedRecord =>
        \A g \in Groups :
            /\ ValuesOf(ret, g) =
                   [i \in DOMAIN RawOf(g) |-> round1(RawOf(g)[i], SchemaOf(fn).numpy)]
            /\ DOMAIN PctOf(ret, g) = DOMAIN RawOf(g)
            /\ RoundedTo(g, PctUnit(g))
            /\ SumSeq(RawOf(g)) <= 0 =>
                   \A i \in DOMAIN PctOf(ret, g) : PctOf(ret, g)[i] = 0

\* C19 witness: raw densities 0.25 and 1.75 are stored as 0.2 and 1.8, and
\* their percentages are 12.5 and 87.5, those of the raw values (the stored
\* ones would give 10 and 90).
C19_Witness ==
    /\ ReturnedRecord
    /\ RawOf("density")[1] = 25
    /\ RawOf("density")[2] = 175
    /\ ret.density_values[1] = 20
    /\ ret.density_values[2] = 180
    /\ ret.density_pct[1] = 1250
    /\ ret.density_pct[2] = 8750

\* The location mapping of the returned record has exactly the six keys, each
\* holding its raw field as read, and total_units and affordable_units hold
\* theirs.
LocationAndTotalsAsRead ==
    /\ DOMAIN ret.location_data =
           { "fault_zone", "historic_district", "urbanized", "walkable", "near_transit",
             "wui" }
    /\ ret.location_data["fault_zone"] = Field("unitsFaultZoneSum")
    /\ ret.location_data["historic_district"] = Field("unitsHistoricDistrictSum")
    /\ ret.location_data["urbanized"] = Field("unitsUrbanizedSum")
    /\ ret.location_data["walkable"] = Field("unitsWalkableSum")
    /\ ret.location_data["near_transit"] = Field("unitsNearTransitSum")
    /\ ret.location_data["wui"] = Field("unitsWuiSum")
    /\ ret.total_units = Field("totalUnitsSum")
    /\ ret.affordable_units = Field("affordableUnitsSum")

\* C20 as claimed: every record returned by a normalizer carries the location
\* mapping of six raw fields unchanged and the three scalars total_units,
\* affordable_units and net_units, each its raw field unchanged.
C20_LocationAndThreeTotals ==
    ReturnedRecord =>
        /\ LocationAndTotalsAsRead
        /\ "net_units" \in DOMAIN ret
        /\ ret.net_units = Field("netUnitsSum")

\* C20 amended: every returned record carries the location mapping of six raw
\* fields unchanged and total_units and affordable_units unchanged; net_units,
\* the raw netUnitsSum unchanged, is carried by the records of
\* data_loader.process_aggregation_data only, the records of the two
\* normalizers of streamlit_app.py have no net_units.
C20_LocationAndTotalsBySchema ==
    ReturnedRecord =>
        /\ LocationAndTotalsAsRead
        /\ IF fn = DataLoaderFn
           THEN "net_units" \in DOMAIN ret /\ ret.net_units = Field("netUnitsSum")
           ELSE "net_units" \notin DOMAIN ret

\* C20 witness: a record of data_loader with fractional totals kept as read.
C20_Witness ==
    /\ ReturnedRecord
    /\ fn = DataLoaderFn
    /\ ret.net_units = Number(25)
    /\ ret.affordable_units = Number(175)
    /\ ret.location_data["wui"] = Number(0)

\* C20 witness of the location mapping: a fraction and a null kept as read.
C20_WitnessLocation ==
    /\ ReturnedRecord
    /\ ret.location_data["wui"] = Number(25)
    /\ ret.location_data["fault_zone"] = NoneValue

\* The request positions the loop has passed that carry the simulation id sid.
PassedPositionsOf(sid) ==
    { k \in 1..Len(simulation_ids) : k < idx /\ simulation_ids[k] = sid }

\* C21: the collection builder does not deduplicate: at every point of the
\* loop, for every simulation id of the request whose entry is collectable,
\* the collection holds one record for each position of that id the loop has
\* passed (k records once it has passed the k positions), each named after
\* its own position; so the collection may be longer than the number of
\* distinct ids, and it is never longer than the request list.
C21_NoDeduplication ==
    (PageLoad /\ idx >= 1) =>
        /\ Len(all_data) <= Len(simulation_ids)
        /\ \A sid \in Range(simulation_ids) :
            (\E k \in 1..Len(simulation_ids) : simulation_ids[k] = sid /\ Collectable(k)) =>
                /\ \A k \in PassedPositionsOf(sid) :
                       \E i \in DOMAIN all_data : PositionsOf(all_data[i]) = {k}
                /\ Cardinality({ i \in DOMAIN all_data :
                                    PositionsOf(all_data[i]) \subseteq PassedPositionsOf(sid) })
                       = Cardinality(PassedPositionsOf(sid))

\* C21 witness: the request names the same id twice (once with a space that
\* strip() removes), the loop has ended, and the collection holds two records
\* of it, equal but for their names, more records than distinct ids.
C21_Witness ==
    /\ Finished
    /\ params.simulation_ids.present
    /\ params.simulation_ids.pieces = << "b", " b" >>
    /\ simulation_ids = << "b", "b" >>
    /\ Collectable(1)
    /\ Len(all_data) = 2
    /\ Len(all_data) > Cardinality(Range(simulation_ids))
    /\ all_data[1].scenario_name = "Scenario 1"
    /\ all_data[2].scenario_name = "Scenario 2"
    /\ [all_data[1] EXCEPT !.scenario_name = ""] = [all_data[2] EXCEPT !.scenario_name = ""]

\* C22: every record of the collection is named "Scenario k" for the 1-based
\* position k of its simulation id in the request list: k is a position the
\* loop has passed, the record is the one normalized from the entry of that
\* position, the record stands in the collection at the count of the
\* collectable positions up to k (so at or before k, and before k once a
\* position was skipped: the later names are not shifted), and the names of
\* one collection are pairwise distinct.
C22_NamedAfterRequestPosition ==
    (PageLoad /\ idx >= 1) =>
        /\ \A i \in DOMAIN all_data :
            \E k \in 1..Len(simulation_ids) :
                /\ all_data[i].scenario_name = "Scenario " \o ToString(k)
                /\ k < idx
                /\ Collectable(k)
                /\ all_data[i] =
                       streamlit_app_process_aggregation_data(
                           api_response.json[simulation_ids[k]].items[1],
                           "Scenario " \o ToString(k)).ret
                /\ i = Cardinality({ p \in 1..k : Collectable(p) })
        /\ \A i, j \in DOMAIN all_data :
            i # j => all_data[i].scenario_name # all_data[j].scenario_name

\* C22 witness: the entry of the first id is in the response but its first
\* record does not normalize, so it is skipped with a message; the record of
\* the second id stands first in the collection and is named Scenario 2.
C22_Witness ==
    /\ Finished
    /\ Len(simulation_ids) = 2
    /\ Malformed(1)
    /\ st_error # <<>>
    /\ Len(all_data) = 1
    /\ all_data[1].scenario_name = "Scenario 2"
    /\ \A i \in DOMAIN all_data : all_data[i].scenario_name # "Scenario 1"

----------------------------------------------------------------------------
(* The range of the percentages, the two loaders, null fields, empty responses *)

\* 100 per cent, in hundredths.
Hundred == Num(100)

\* C23: in every returned record, a group whose raw values are all at least 0
\* (for fire_risk: the two counts at least 0 and their sum at most
\* total_units, so that the derived 'none' is at least 0) has every
\* percentage between 0 and 100 inclusive; put the other way, a percentage
\* below 0 or above 100 is in the record only when a value of its group is
\* negative.
C23_PercentagesWithin0And100 ==
    ReturnedRecord =>
        \A g \in Groups :
            /\ (\A i \in DOMAIN RawOf(g) : RawOf(g)[i] >= 0) =>
                   \A i \in DOMAIN PctOf(ret, g) :
                       PctOf(ret, g)[i] >= 0 /\ PctOf(ret, g)[i] <= Hundred
            /\ (\E i \in DOMAIN PctOf(ret, g) :
                    PctOf(ret, g)[i] < 0 \/ PctOf(ret, g)[i] > Hundred) =>
                   \E i \in DOMAIN RawOf(g) : RawOf(g)[i] < 0

\* C23 witness: a fire-risk group of 1 high and 1 very high among 3 units,
\* all values at least 0, with the percentages 33.3 each, and in the same
\* record an income group of values at least 0 with a percentage of 100.
C23_Witness ==
    /\ ReturnedRecord
    /\ RawOf("fire_risk") = << Num(1), Num(1), Num(1) >>
    /\ ret.fire_risk_pct = << 3330, 3330, 3330 >>
    /\ \A i \in DOMAIN RawOf("income") : RawOf("income")[i] >= 0
    /\ \A g \in Groups : \A i \in DOMAIN PctOf(ret, g) :
           PctOf(ret, g)[i] >= 0 /\ PctOf(ret, g)[i] <= Hundred

\* C23 witness of the other side: an income group of -1 and 2 units has the
\* percentages -100 and 200.
C23_WitnessNegative ==
    /\ ReturnedRecord
    /\ RawOf("income")[1] = -Num(1)
    /\ RawOf("income")[2] = Num(2)
    /\ ret.income_pct[1] = -Hundred
    /\ ret.income_pct[2] = 2 * Hundred

\* A table was loaded from a url that serves one.
LoadedCsv == pc = "returned" /\ fn = LoadCsvFn /\ url # "" /\ ~read_csv_fails(url)

\* The mapping a loaded table stands for: its first data row, or the empty
\* mapping when it has only the header.
FirstRow == IF df_len > 0 THEN data_dict ELSE Dict(<< >>)

\* C24 as claimed: the record load_data_from_aggregation_csv returns for a
\* table whose first data row holds the mapping of numbers m equals the
\* record streamlit_app.process_aggregation_data returns for m and the same
\* name, and for a table of a header and no row it equals the record of the
\* empty mapping.
C24_CsvEqualsProcess ==
    LoadedCsv =>
        ret = streamlit_app_process_aggregation_data(FirstRow, scenario_name).ret

\* What the two loaders do share: the records are equal whenever the two
\* round(v, 1) agree on every value of every group, they are always equal in
\* every field but the eight lists of stored values, where an entry differs
\* by one step of 0.1 at most, and the table without rows gives the record of
\* the empty mapping, every value and percentage 0.
CsvEqualsProcessButForRounding ==
    LoadedCsv =>
        LET other == streamlit_app_process_aggregation_data(FirstRow, scenario_name).ret
            lists == { "income_values", "bedroom_values", "parking_values",
                       "density_values", "far_values", "unit_type_values",
                       "tcac_values", "fire_risk_values" }
        IN  /\ ret.kind = "dict"
            /\ other.kind = "dict"
            /\ DOMAIN ret = DOMAIN other
            /\ \A f \in DOMAIN ret \ lists : ret[f] = other[f]
            /\ \A g \in Groups :
                /\ Len(ValuesOf(ret, g)) = Len(ValuesOf(other, g))
                /\ \A i \in DOMAIN ValuesOf(ret, g) :
                    /\ Abs(ValuesOf(ret, g)[i] - ValuesOf(other, g)[i]) <= 10
                    /\ Round1(RawOf(g)[i]) = NumpyRound1(RawOf(g)[i]) =>
                           ValuesOf(ret, g)[i] = ValuesOf(other, g)[i]
            /\ df_len = 0 =>
                   /\ ret = other
                   /\ \A g \in Groups : \A i \in DOMAIN ValuesOf(ret, g) :
                          ValuesOf(ret, g)[i] = 0 /\ PctOf(ret, g)[i] = 0

\* The two loaders agree on a table of rows whose numbers are off the ties:
\* a first row with a field above 0 gives equal records.
CsvEqualsProcessWitness ==
    /\ LoadedCsv
    /\ df_len > 0
    /\ "marketUnits050Sum" \in DOMAIN data_dict.fields
    /\ data_dict.fields["marketUnits050Sum"] = Number(175)
    /\ ret = streamlit_app_process_aggregation_data(data_dict, scenario_name).ret
    /\ ret.income_values[1] = 180

\* The raw fields the normalizer f sums in a group or subtracts for fire_risk.
ComputedKeys(f) ==
    Range(SchemaOf(f).income) \cup Range(SchemaOf(f).bedroom) \cup Range(parking_keys)
    \cup Range(density_keys) \cup Range(far_keys) \cup Range(unit_type_keys)
    \cup Range(SchemaOf(f).tcac)
    \cup { "totalUnitsSum", SchemaOf(f).fire_high, SchemaOf(f).fire_very_high }

\* The mapping raw holds null in a field that f computes with.
HoldsNull(raw, f) ==
    /\ raw.kind = "dict"
    /\ \E k \in DOMAIN raw.fields \cap ComputedKeys(f) : raw.fields[k] = NoneValue

\* The two st.error calls of the handler of process_aggregation_data.
ProcessingError(e) ==
    << [text |-> "Error processing aggregation data", e |-> e],
       [text |-> "traceback", e |-> e] >>

\* C25: the default 0 is for absent keys only.  A process_aggregation_data
\* called on a mapping that holds null in a field of a summed group or of the
\* fire-risk derivation returns None, raises nothing and emits the error
\* message of a TypeError; in the page load a request position whose first
\* record holds such a null has, once the loop has passed it, no record in
\* the collection and its error message in st.error.
C25_NullFieldFailsNormalization ==
    /\ (pc = "returned" /\ fn \in ProcessFns /\ HoldsNull(data_dict, fn)) =>
           /\ ret = None
           /\ escaped = ""
           /\ st_error = ProcessingError("TypeError")
    /\ (PageLoad /\ idx >= 1) =>
           \A k \in 1..Len(simulation_ids) :
               (/\ k < idx
                /\ simulation_ids[k] \in DOMAIN api_response.json
                /\ api_response.json[simulation_ids[k]].kind = "list"
                /\ Len(api_response.json[simulation_ids[k]].items) > 0
                /\ HoldsNull(api_response.json[simulation_ids[k]].items[1], StreamlitAppFn))
               => /\ \A i \in DOMAIN all_data :
                         all_data[i].scenario_name # "Scenario " \o ToString(k)
                  /\ \E i \in DOMAIN st_error :
                         st_error[i] = ProcessingError("TypeError")[1]

\* C25 witness: data_loader.process_aggregation_data was called on a mapping
\* in which one income band is null and another holds 2 units, and returned
\* None with the message.
C25_Witness ==
    /\ pc = "returned"
    /\ fn = DataLoaderFn
    /\ HoldsNull(data_dict, fn)
    /\ "marketUnits050Sum" \in DOMAIN data_dict.fields
    /\ data_dict.fields["marketUnits050Sum"] = NoneValue
    /\ "marketUnits51100Sum" \in DOMAIN data_dict.fields
    /\ data_dict.fields["marketUnits51100Sum"] = Number(Num(2))
    /\ ret = None
    /\ st_error = ProcessingError("TypeError")

\* C25 witness in the page load: of two requested ids the first has a record
\* with a null totalUnitsSum and is left out, the second is collected.
C25_WitnessPage ==
    /\ Finished
    /\ Len(simulation_ids) = 2
    /\ simulation_ids[1] \in DOMAIN api_response.json
    /\ api_response.json[simulation_ids[1]].kind = "list"
    /\ Len(api_response.json[simulation_ids[1]].items) > 0
    /\ HoldsNull(api_response.json[simulation_ids[1]].items[1], StreamlitAppFn)
    /\ Len(all_data) = 1
    /\ all_data[1].scenario_name = "Scenario 2"
    /\ Len(st_error) = 2

\* The fetch returned the JSON of a 200 response, and it is an empty mapping.
EmptyResponse ==
    /\ PageLoad
    /\ api_response # None
    /\ DOMAIN api_response.json = {}

\* st.error was called with this text.
Emitted(text) == \E i \in DOMAIN st_error : st_error[i] = Message(text)

\* C26: a fetch that succeeds with status 200 and an empty JSON mapping is
\* handled as a failed fetch: the page load has stopped at the check of the
\* fetch with the one error "Failed to fetch data from API", the loop was not
\* entered, nothing was collected, and the error of the empty result was not
\* emitted.  The error of the empty result is emitted only after the loop has
\* run to its end over a response that is not empty and in which no requested
\* position gave a record.
C26_EmptyResponseIsFetchFailure ==
    /\ EmptyResponse =>
           /\ posts[Len(posts)].met = [kind |-> "response", status |-> 200]
           /\ pc = "stopped"
           /\ idx = 0
           /\ all_data = <<>>
           /\ st_error = << Message("Failed to fetch data from API") >>
           /\ ~Emitted("Failed to load any data")
    /\ (PageLoad /\ Emitted("Failed to load any data")) =>
           /\ api_response # None
           /\ DOMAIN api_response.json # {}
           /\ ~Emitted("Failed to fetch data from API")
           /\ pc = "stopped"
           /\ Finished
           /\ all_data = <<>>
           /\ \A k \in 1..Len(simulation_ids) : ~Collectable(k)

\* C26 witness: the POST met status 200 with an empty mapping and the page
\* load stopped with the error of a failed fetch.
C26_Witness ==
    /\ EmptyResponse
    /\ Len(posts) = 1
    /\ posts[1].met.status = 200
    /\ pc = "stopped"
    /\ Emitted("Failed to fetch data from API")

\* C26 witness of the empty result: the response holds an entry, for an id
\* that was not requested, and the page load stopped after the loop with the
\* error of the empty result.
C26_WitnessEmptyResult ==
    /\ PageLoad
    /\ api_response # None
    /\ DOMAIN api_response.json # {}
    /\ \A k \in 1..Len(simulation_ids) : simulation_ids[k] \notin DOMAIN api_response.json
    /\ pc = "stopped"
    /\ st_error = << Message("Failed to load any data") >>

====
